---- MODULE Spec2Model ----
(***************************************************************************)
(* Model of rigid_flows: the OpenMM energy oracle with its per-sample      *)
(* error policy (system.py, OpenMMEnergyModel), the differentiable bridge  *)
(* around it (system.py, wrap_openmm_model), the gradient cutoff transform *)
(* (density.py, cutoff_potential) and TargetDensity.potential.             *)
(*                                                                         *)
(* Floating point values are records: Fin(n) is the finite value n, NaN is *)
(* a not-a-number.  Two floats are "equal" when they are the same value.   *)
(***************************************************************************)
EXTENDS Integers, Sequences, FiniteSets, TLC

\* ---------------------------------------------------------------- bounds
MaxBatch == 2
n_molecules == 2
n_sites == 2

\* ------------------------------------------------------ program constants
SPATIAL_DIM == 3
kbT == 2

n_atoms == n_molecules * n_sites

None == "None"
\* no value: nothing returned (yet)
NoResult == [set |-> FALSE]

\* class ErrorHandling
RaiseException == "raise_exception"
LogWarning == "log_warning"
Nothing == "nothing"
ErrorHandling == {RaiseException, LogWarning, Nothing}

\* ------------------------------------------------------------------ floats
Fin(n) == [nan |-> FALSE, v |-> n]
NaN == [nan |-> TRUE, v |-> 0]

\* x * m for a float x and an integer m (IEEE: NaN * 0 is NaN)
FMul(x, m) == IF x.nan THEN NaN ELSE Fin(x.v * m)

\* raw / kbT for an engine value in engine units
FDivKbT(raw) == Fin(raw \div kbT)

\* what np.empty / np.empty_like may hold: memory that was never written
Garbage == {Fin(7), NaN}

\* ------------------------------------------------------------------- boxes
Vec3(s) == [c \in 1..SPATIAL_DIM |-> s]

\* np.diag / jnp.diag of a 3-vector
Diag(v) == [r \in 1..SPATIAL_DIM |-> [c \in 1..SPATIAL_DIM |-> IF r = c THEN v[r] ELSE 0]]

\* SimulationBox.size
BoxSize(box) == [c \in 1..SPATIAL_DIM |-> box.max[c] - box.min[c]]

SimulationBoxes == {[max |-> Vec3(mx), min |-> Vec3(mn)] : mx \in {2, 3}, mn \in {0, 1}}

\* An array handed over as a box argument: its shape and its entries.
\* NoBox is the argument None.
Array(shape, data) == [shape |-> shape, data |-> data]
NoBox == Array(<<>>, <<>>)

\* arrays of shape (3,): box edge lengths, as inp.box.size holds them
BoxVectors == {Array(<<SPATIAL_DIM>>, Vec3(s)) : s \in {2, 3}}
\* arrays of shape (3, 3): box vector matrices
BoxMatrices == {Array(<<SPATIAL_DIM, SPATIAL_DIM>>, Diag(Vec3(s))) : s \in {2, 3}}

\* a box argument the oracle's shape assertion rejects
BadBox == Array(<<SPATIAL_DIM>>, Vec3(2))

\* jnp.diag(box) in the bridge
DiagArray(box) == Array(<<SPATIAL_DIM, SPATIAL_DIM>>, Diag(box.data))

\* ----------------------------------------------------------------- engine
\* A configuration stands for one (n_molecules, n_sites, 3) array of atomic
\* positions.  0 is model.positions.  The engine is a deterministic function
\* of the positions and box held by the context.
\* Configuration 2 is one the engine cannot evaluate: the try block raises
\* for it, in setPositions (nothing is stored) or later, in getState.
Cfgs == {0, 1, 2}
Fails(cfg) == cfg = 2
Stages == {"setPositions", "getState"}

\* state.getPotentialEnergy() in kJ/mol
RawEnergy(cfg, box) == kbT * (5 * cfg + box[1][1] - 4)
\* state.getForces() in kJ/mol/nm, shape (n_atoms, 3); nonzero on every atom,
\* virtual sites included
RawForces(cfg, box) ==
  [a \in 1..n_atoms |-> [c \in 1..SPATIAL_DIM |->
      kbT * ((IF (a + c) % 2 = 0 THEN 1 ELSE -1) * (20 * cfg + 3 * a + c + box[1][1]))]]

\* model.vs_mask, shape (n_atoms, 3): 0 on virtual sites (the last site of
\* every molecule), 1 on real atoms
IsVirtualSite(a) == a % n_sites = 0
vs_mask == [a \in 1..n_atoms |-> [c \in 1..SPATIAL_DIM |-> IF IsVirtualSite(a) THEN 0 ELSE 1]]

\* model.box and model.positions
ModelBox == Diag(Vec3(1))
ModelPositions == 0

\* ------------------------------------------------------------ force arrays
\* np.empty_like(forces[i]): an (n_atoms, 3) array of unwritten memory
EmptyForce(junk) == [a \in 1..n_atoms |-> [c \in 1..SPATIAL_DIM |-> junk]]

\* state.getForces(...) / self.kbT
ScaledForces(cfg, box) ==
  [a \in 1..n_atoms |-> [c \in 1..SPATIAL_DIM |-> FDivKbT(RawForces(cfg, box)[a][c])]]

\* state.getPotentialEnergy() / self.kbT
ScaledEnergy(cfg, box) == FDivKbT(RawEnergy(cfg, box))

\* force * self.model.vs_mask
MaskForce(force) ==
  [a \in 1..n_atoms |-> [c \in 1..SPATIAL_DIM |-> FMul(force[a][c], vs_mask[a][c])]]

\* forces_flat.reshape(pos.shape) for one sample: (n_atoms, 3) -> (n_molecules, n_sites, 3)
Unflatten(f) == [m \in 1..n_molecules |-> [s \in 1..n_sites |-> f[(m - 1) * n_sites + s]]]

\* ------------------------------------------------------------------ state
VARIABLES
  error_handling,  \* self.error_handling, fixed at construction
  ctxBox,          \* periodic box vectors held by self.context
  ctxPos,          \* positions held by self.context
  pc,              \* "idle", "loop" (inside the batch loop), "returned", "raised"
  pos,             \* the batch of the current call, one configuration per sample
  boxArg,          \* the box argument of the current oracle call
  ehArg,           \* the error_handling argument of the current oracle call
  i,               \* loop index (samples already processed)
  energies,        \* output buffer energies
  forces,          \* output buffer forces
  warnings,        \* logging.warning calls made by the current call
  pushed,          \* indices handed to context.setPositions by the current call
  boxSets,         \* context.setPeriodicBoxVectors calls made by the current call
  callBox,         \* box held by the context when the batch loop started
  lastBox,         \* the last box supplied and by which operation: "model"
                   \* (construction), "set_box" or "call"
  exc,             \* the exception the current call raised, None otherwise
  via,             \* "oracle": direct call, "bridge": call through the bridge
  has_batch_dim,   \* the bridge's has_batch_dim argument
  out,             \* what the current call returned, None otherwise
  grad,            \* what eval_bwd returned for the current call, None otherwise
  cut,             \* one evaluation of a cutoff_potential: inputs and outputs
  tgt              \* one call of TargetDensity.potential: object, input, outcome

vars == <<error_handling, ctxBox, ctxPos, pc, pos, boxArg, ehArg, i, energies,
          forces, warnings, pushed, boxSets, callBox, lastBox, exc, via,
          has_batch_dim, out, grad, cut, tgt>>

\* OpenMMEnergyModel.__init__
OracleInit(policies) ==
  /\ error_handling \in policies
  /\ ctxBox = ModelBox
  /\ ctxPos = ModelPositions
  /\ pc = "idle"
  /\ pos = <<>>
  /\ boxArg = NoBox
  /\ ehArg = None
  /\ i = 0
  /\ energies = <<>>
  /\ forces = <<>>
  /\ warnings = 0
  /\ pushed = <<>>
  /\ boxSets = 0
  /\ callBox = ModelBox
  /\ lastBox = [kind |-> "model", box |-> NoBox]
  /\ exc = None
  /\ via = "oracle"
  /\ has_batch_dim = TRUE
  /\ out = NoResult
  /\ grad = NoResult

\* no cutoff potential is being evaluated, TargetDensity.potential is not called
NoCut == [pc |-> "none"]
NoTgt == [pc |-> "none"]

Init ==
  /\ OracleInit(ErrorHandling)
  /\ cut = NoCut
  /\ tgt = NoTgt

\* ------------------------------------------------------------- operations
\* OpenMMEnergyModel.set_box
set_box(box) ==
  /\ pc = "idle"
  /\ ctxBox' = Diag(BoxSize(box))
  /\ lastBox' = [kind |-> "set_box", box |-> box]
  /\ UNCHANGED <<cut, tgt, error_handling, ctxPos, pc, pos, boxArg, ehArg, i, energies,
                 forces, warnings, pushed, boxSets, callBox, exc, via,
                 has_batch_dim, out, grad>>

\* the policy the except-handler dispatches on
HandlerPolicy(configured, arg) == configured

\* the local error_handling after "if error_handling is None"
EffectivePolicy(configured, arg) == IF arg = None THEN configured ELSE arg

\* a call that never hands its box to the context
BoxAfterCallIgnored(held, box) == held

\* the box the context holds after "if box is not None: setPeriodicBoxVectors"
BoxAfterCall(held, box) == IF box # NoBox THEN box.data ELSE held

\* what the bridge makes of the oracle's return value
BridgeResult(hbd, es, fs) ==
  IF hbd
  THEN [set |-> TRUE, energies |-> es, forces |-> [b \in 1..Len(fs) |-> Unflatten(fs[b])]]
  ELSE [set |-> TRUE, energies |-> es[1], forces |-> Unflatten(fs[1])]

\* the value handed back to the caller once the loop is over
Returned(v, hbd, es, fs) ==
  IF v = "bridge" THEN BridgeResult(hbd, es, fs) ELSE [set |-> TRUE, energies |-> es, forces |-> fs]

\* compute_energies_and_forces up to the loop: buffers, policy default, box
StartCall(p, box, eh, v, hbd) ==
  /\ pc = "idle"
  /\ pos' = p
  /\ boxArg' = box
  /\ ehArg' = eh
  /\ via' = v
  /\ has_batch_dim' = hbd
  /\ i' = 0
  /\ warnings' = 0
  /\ pushed' = <<>>
  /\ grad' = NoResult
  /\ energies' = <<>>
  /\ forces' = <<>>
  /\ UNCHANGED <<cut, tgt, error_handling, ctxPos>>
  /\ IF box # NoBox /\ box.shape # <<SPATIAL_DIM, SPATIAL_DIM>>
     THEN /\ pc' = "raised"
          /\ exc' = "AssertionError"
          /\ out' = NoResult
          /\ boxSets' = 0
          /\ UNCHANGED <<ctxBox, callBox, lastBox>>
     ELSE /\ ctxBox' = BoxAfterCall(ctxBox, box)
          /\ callBox' = BoxAfterCall(ctxBox, box)
          /\ lastBox' = IF box # NoBox THEN [kind |-> "call", box |-> box] ELSE lastBox
          /\ boxSets' = IF box # NoBox THEN 1 ELSE 0
          /\ exc' = None
          /\ pc' = IF Len(p) = 0 THEN "returned" ELSE "loop"
          /\ out' = IF Len(p) = 0 THEN Returned(v, hbd, <<>>, <<>>) ELSE NoResult

Batches == UNION {[1..n -> Cfgs] : n \in 0..MaxBatch}

\* OpenMMEnergyModel.compute_energies_and_forces, called directly
compute_energies_and_forces ==
  \E p \in Batches, box \in {NoBox} \cup BoxMatrices \cup {BadBox},
     eh \in {None} \cup ErrorHandling :
    StartCall(p, box, eh, "oracle", TRUE)

\* wrap_openmm_model.compute_energy_and_forces up to the pure_callback
compute_energy_and_forces ==
  \E hbd \in BOOLEAN, box \in {NoBox} \cup BoxVectors :
    \E p \in IF hbd THEN Batches ELSE {<<c>> : c \in Cfgs} :
      StartCall(p, IF box = NoBox THEN NoBox ELSE DiagArray(box), None, "bridge", hbd)

\* every sample written to the first slot
SlotFirst(k) == 1

\* the slot index written by "energies[i] = ..." / "forces[i] = ..."
Slot(k) == k + 1

\* buf[slot] = value.  A buffer is the function from the slots written so far
\* to their contents; np.empty left the other slots holding unwritten memory.
Store(buf, slot, value) ==
  [k \in DOMAIN buf \cup {slot} |-> IF k = slot THEN value ELSE buf[k]]

\* the n-slot array a buffer is when it is read: unwritten slots hold junk
Read(buf, n, junk) == [k \in 1..n |-> IF k \in DOMAIN buf THEN buf[k] ELSE junk]

\* a context that keeps the positions of a configuration it could not evaluate
SetPositionsStuck(held, cfg, raised) == IF raised \/ Fails(held) THEN held ELSE cfg

\* context.setPositions(pos[i]): the positions the context holds afterwards
SetPositions(held, cfg, raised) == IF raised THEN held ELSE cfg

\* one iteration of the batch loop: try / except / finally
Sample ==
  /\ pc = "loop"
  /\ i < Len(pos)
  /\ \E junk \in Garbage, stage \in Stages :
       LET cfg == pos[i + 1]
           failed == Fails(cfg)
           held == SetPositions(ctxPos, cfg, failed /\ stage = "setPositions")
           energy == IF failed THEN junk ELSE ScaledEnergy(held, ctxBox)
           force == IF failed THEN EmptyForce(junk) ELSE ScaledForces(held, ctxBox)
           policy == HandlerPolicy(error_handling, ehArg)
           raises == failed /\ policy = RaiseException
           done == ~raises /\ i + 1 = Len(pos)
       IN /\ ctxPos' = held
          /\ pushed' = Append(pushed, i + 1)
          /\ energies' = Store(energies, Slot(i), energy)
          /\ forces' = Store(forces, Slot(i), MaskForce(force))
          /\ warnings' = IF failed /\ policy = LogWarning THEN warnings + 1 ELSE warnings
          /\ i' = IF raises THEN i ELSE i + 1
          /\ pc' = IF raises THEN "raised" ELSE IF done THEN "returned" ELSE "loop"
          /\ exc' = IF raises THEN "OpenMMException" ELSE None
          /\ out' = IF done
                    THEN Returned(via, has_batch_dim, Read(energies', Len(pos), junk),
                                  Read(forces', Len(pos), EmptyForce(junk)))
                    ELSE NoResult
  /\ UNCHANGED <<cut, tgt, error_handling, ctxBox, pos, boxArg, ehArg, boxSets, callBox,
                 lastBox, via, has_batch_dim, grad>>

\* upstream gradients: a scalar without batch dimension, one entry per sample with
Upstream(hbd, n) == IF hbd THEN [1..n -> {1, 2}] ELSE {1, 2}

\* wrap_openmm_model.eval_bwd: -g * force under array broadcasting, which
\* aligns the axis of a one-dimensional g with the LAST axis of force
eval_bwd(hbd, res, g) ==
  IF ~hbd
  THEN [ok |-> TRUE,
        val |-> [m \in 1..n_molecules |-> [s \in 1..n_sites |-> [c \in 1..SPATIAL_DIM |->
                   FMul(res[m][s][c], -g)]]]]
  ELSE IF Len(g) = SPATIAL_DIM \/ Len(g) = 1
       THEN [ok |-> TRUE,
             val |-> [b \in 1..Len(res) |-> [m \in 1..n_molecules |-> [s \in 1..n_sites |->
                        [c \in 1..SPATIAL_DIM |->
                           FMul(res[b][m][s][c], -g[IF Len(g) = 1 THEN 1 ELSE c])]]]]]
       ELSE [ok |-> FALSE, val |-> "TypeError"]

\* differentiating eval: the backward pass on the residual of the forward pass
Backward ==
  /\ pc = "returned"
  /\ via = "bridge"
  /\ grad = NoResult
  /\ \E g \in Upstream(has_batch_dim, Len(pos)) :
       grad' = [set |-> TRUE, g |-> g, dpos |-> eval_bwd(has_batch_dim, out.forces, g)]
  /\ UNCHANGED <<cut, tgt, error_handling, ctxBox, ctxPos, pc, pos, boxArg, ehArg, i,
                 energies, forces, warnings, pushed, boxSets, callBox, lastBox,
                 exc, via, has_batch_dim, out>>

\* the caller is done with the result (or the exception) of the call
Discard ==
  /\ pc \in {"returned", "raised"}
  /\ pc' = "idle"
  /\ pos' = <<>>
  /\ boxArg' = NoBox
  /\ ehArg' = None
  /\ i' = 0
  /\ energies' = <<>>
  /\ forces' = <<>>
  /\ warnings' = 0
  /\ pushed' = <<>>
  /\ boxSets' = 0
  /\ callBox' = ctxBox
  /\ exc' = None
  /\ via' = "oracle"
  /\ has_batch_dim' = TRUE
  /\ out' = NoResult
  /\ grad' = NoResult
  /\ UNCHANGED <<cut, tgt, error_handling, ctxBox, ctxPos, lastBox>>

Next ==
  \/ \E box \in SimulationBoxes : set_box(box)
  \/ compute_energies_and_forces
  \/ compute_energy_and_forces
  \/ Sample
  \/ Backward
  \/ Discard

Spec == Init /\ [][Next]_vars

\* ======================================================== cutoff_potential
\* Points, references and gradients are vectors of Dim integers.  Lengths are
\* counted in units of 1e-6, so that squared gradient norms are counted in
\* units of 1e-12 and the 1e-12 under the square roots is the integer EPS.
\* Coordinates are even, so that 0.5 * (sum of squares) is an integer.
Dim == 2
EPS == 1

Coords == {0, 6, 8}
Points == [1..Dim -> Coords]
\* thresholds are positive gradient norms
Thresholds == {1, 10, 20}

RECURSIVE SumTo(_, _)
SumTo(f, n) == IF n = 0 THEN 0 ELSE f[n] + SumTo(f, n - 1)
\* jnp.sum(jnp.square(v))
SumSq(v) == SumTo([k \in 1..Dim |-> v[k] * v[k]], Dim)

\* The wrapped potentials: P(x) = 0.5 * stiff * sum((x - centre)^2) with
\* jax.value_and_grad giving P(x) and stiff * (x - centre).
Potentials == {[stiff |-> a, centre |-> [k \in 1..Dim |-> 0]] : a \in {1, 2}}
Value(P, inp) == (P.stiff * SumSq([k \in 1..Dim |-> inp[k] - P.centre[k]])) \div 2
Grad(P, inp) == [k \in 1..Dim |-> P.stiff * (inp[k] - P.centre[k])]

\* cutoff_potential.approximate_potential and its jax gradient
approximate_potential(reference, inp) ==
  SumSq([k \in 1..Dim |-> inp[k] - reference[k]]) \div 2
GradApprox(reference, inp) == [k \in 1..Dim |-> inp[k] - reference[k]]

\* the square of jnp.sqrt(1e-12 + jnp.sum(jnp.square(grad)))
RegNormSq(g) == EPS + SumSq(g)

\* gnorm >= threshold instead of gnorm > threshold
ExceedsOrEqual(gnormSq, threshold) == threshold < 0 \/ gnormSq >= threshold * threshold

\* gnorm > threshold, for gnorm = sqrt(gnormSq) > 0
Exceeds(gnormSq, threshold) == threshold < 0 \/ gnormSq > threshold * threshold

\* A gradient is kept exactly as the vector vec * num / sqrt(denSq).
Exact(v) == [vec |-> v, num |-> 1, denSq |-> 1]
\* grad_approx / gnorm_approx, the threshold forgotten
RescaleToUnit(v, gnormSq, threshold) == [vec |-> v, num |-> 1, denSq |-> gnormSq]

\* grad_approx / gnorm_approx * threshold
Rescale(v, gnormSq, threshold) == [vec |-> v, num |-> threshold, denSq |-> gnormSq]

\* cutoff_potential.eval_fwd: the selected value and the selected gradient
eval_fwd(P, reference, threshold, inp) ==
  LET original == Value(P, inp)
      gradP == Grad(P, inp)
      gnormSq == RegNormSq(gradP)
      approx == approximate_potential(reference, inp)
      grad_approx == Rescale(GradApprox(reference, inp),
                             RegNormSq(GradApprox(reference, inp)), threshold)
  IN [out |-> IF Exceeds(gnormSq, threshold) THEN approx ELSE original,
      grad |-> IF Exceeds(gnormSq, threshold) THEN grad_approx ELSE Exact(gradP)]

\* cutoff_potential.eval_bwd: g_out * g_inp
cutoff_eval_bwd(g_inp, g_out) == [g_inp EXCEPT !.num = g_out * g_inp.num]

CutoffInputs ==
  {[pc |-> "in", P |-> P, reference |-> r, threshold |-> t, inp |-> x, g_out |-> g,
    out |-> 0, grad |-> Exact([k \in 1..Dim |-> 0])] :
     P \in Potentials, r \in Points, t \in Thresholds, x \in Points, g \in {1, 2}}

\* a cutoff potential built from P, reference and threshold, about to be
\* differentiated at inp with upstream gradient g_out
InitCutoff ==
  /\ OracleInit({LogWarning})
  /\ cut \in CutoffInputs
  /\ tgt = NoTgt

\* value and gradient of cutoff_potential(P, reference, threshold) at inp:
\* the forward pass, then the backward pass on its residual
CutoffEval ==
  /\ cut.pc = "in"
  /\ LET fwd == eval_fwd(cut.P, cut.reference, cut.threshold, cut.inp)
     IN cut' = [cut EXCEPT !.pc = "out", !.out = fwd.out,
                           !.grad = cutoff_eval_bwd(fwd.grad, cut.g_out)]
  /\ UNCHANGED <<tgt, error_handling, ctxBox, ctxPos, pc, pos, boxArg, ehArg, i,
                 energies, forces, warnings, pushed, boxSets, callBox, lastBox,
                 exc, via, has_batch_dim, out, grad>>

NextCutoff == CutoffEval

SpecCutoff == InitCutoff /\ [][NextCutoff]_vars

\* ================================================= TargetDensity.potential
\* An optional value is a sequence: <<>> is None, <<v>> is the value v.
\* what wrap_openmm_model returns: the pair (eval, compute_energy_and_forces)
wrap_openmm_model == [type |-> "tuple", items |-> <<"eval", "compute_energy_and_forces">>]

\* Python's callable(obj)
Callable(obj) == obj.type \in {"function", "partial"}

\* self.aux_model.log_prob(inp.aux).sum() for a standard normal, for even aux
\* and without the normalising constant
aux_log_prob(aux) == -((aux * aux) \div 2)

Outcome(e, v) == [exc |-> e, value |-> v, oracle_calls |-> 0]

\* TargetDensity.potential: functools.partial refuses a first argument that
\* is not callable; past it, the cutoff needs data, and the final call
\* energy(inp.pos, inp.box.size) hands over box a second time (or, to the
\* one-argument cutoff potential, one argument too many)
potential(cutoff, data, inp) ==
  IF ~Callable(wrap_openmm_model)
  THEN Outcome("TypeError", 0)
  ELSE IF cutoff # <<>> /\ data = <<>>
       THEN Outcome("ValueError", 0)
       ELSE Outcome("TypeError", 0)

TargetInputs ==
  {[pc |-> "in", cutoff |-> c, data |-> d, inp |-> [aux |-> a, pos |-> p, box |-> b],
    result |-> Outcome(None, 0)] :
     c \in {<<>>, <<10>>}, d \in {<<>>} \cup {<<[pos |-> <<r>>]>> : r \in Cfgs},
     a \in {0, 2, 4}, p \in Cfgs, b \in BoxVectors}

\* a TargetDensity around a freshly built oracle, and a well-shaped input
InitTarget ==
  /\ OracleInit(ErrorHandling)
  /\ cut = NoCut
  /\ tgt \in TargetInputs

\* one call of TargetDensity.potential
TargetPotential ==
  /\ tgt.pc = "in"
  /\ tgt' = [tgt EXCEPT !.pc = "out", !.result = potential(tgt.cutoff, tgt.data, tgt.inp)]
  /\ UNCHANGED <<cut, error_handling, ctxBox, ctxPos, pc, pos, boxArg, ehArg, i,
                 energies, forces, warnings, pushed, boxSets, callBox, lastBox,
                 exc, via, has_batch_dim, out, grad>>

NextTarget == TargetPotential

SpecTarget == InitTarget /\ [][NextTarget]_vars

\* =================================================================== claims
\* samples of the current call that were processed and that the engine failed
FailedSoFar == {k \in 1..Len(pushed) : Fails(pos[k])}

\* the current call got past its precondition checks and into the engine
InEngine == pc \in {"loop", "returned"} \/ (pc = "raised" /\ exc = "OpenMMException")

\* C1: a failing sample is handled according to the error_handling argument of
\* the call, and according to the policy configured at construction only when
\* that argument is None: the call raises on a failing sample exactly when
\* that policy is RaiseException, and logs one warning per failing sample
\* exactly when it is LogWarning.
C1_PolicyOfTheCall ==
  LET policy == EffectivePolicy(error_handling, ehArg)
  IN InEngine =>
       /\ (pc = "raised") => policy = RaiseException
       /\ (pc # "raised" /\ FailedSoFar # {}) => policy # RaiseException
       /\ warnings = IF policy = LogWarning THEN Cardinality(FailedSoFar) ELSE 0

\* the current call is over and exactly one sample of its batch fails
ExactlyOneFails(k) ==
  /\ via = "oracle"
  /\ pc \in {"returned", "raised"}
  /\ exc # "AssertionError"
  /\ k \in 1..Len(pos)
  /\ \A j \in 1..Len(pos) : Fails(pos[j]) <=> j = k

\* C2: for a batch in which exactly one sample k fails: under RaiseException
\* the call raises, returns nothing and pushes no sample after k; under
\* LogWarning it returns energies and forces of length N and logs exactly one
\* warning; under Nothing it returns the same and logs nothing.
C2_ErrorPolicyBehaviour ==
  \A k \in 1..MaxBatch :
    ExactlyOneFails(k) =>
      LET policy == EffectivePolicy(error_handling, ehArg)
      IN IF policy = RaiseException
         THEN pc = "raised" /\ ~out.set /\ pushed = [j \in 1..k |-> j]
         ELSE /\ pc = "returned"
              /\ out.set
              /\ Len(out.energies) = Len(pos)
              /\ Len(out.forces) = Len(pos)
              /\ warnings = IF policy = LogWarning THEN 1 ELSE 0

\* what the backward pass has to return for the forward result res and the
\* upstream gradient g: block b is -g[b] * force[b]
ExpectedGradient(hbd, res, g) ==
  IF hbd
  THEN [b \in 1..Len(res) |-> [m \in 1..n_molecules |-> [s \in 1..n_sites |->
          [c \in 1..SPATIAL_DIM |-> FMul(res[b][m][s][c], -g[b])]]]]
  ELSE [m \in 1..n_molecules |-> [s \in 1..n_sites |->
          [c \in 1..SPATIAL_DIM |-> FMul(res[m][s][c], -g)]]]

\* C3: the backward pass of the bridge returns -g * force, shaped like the
\* positions; with a batch dimension, for every batch size, the block of
\* sample b is -g[b] * force[b] (stated here for batches of at least one sample).
C3_GradientIsNegatedForce ==
  (grad.set /\ Len(pos) >= 1) =>
     /\ grad.dpos.ok
     /\ grad.dpos.val = ExpectedGradient(has_batch_dim, out.forces, grad.g)

\* C4: every returned force entry at a virtual-site atom is exactly zero, for
\* every sample, failed samples under a non-raising policy included.
C4_VirtualSiteForcesZero ==
  (pc = "returned" /\ via = "oracle") =>
     \A k \in 1..Len(pos), a \in 1..n_atoms, c \in 1..SPATIAL_DIM :
        IsVirtualSite(a) => out.forces[k][a][c] = Fin(0)

\* the result of evaluating one configuration in a call of its own under box:
\* one pass through the loop body on a batch of one
EvaluatedAlone(cfg, box) ==
  [energy |-> ScaledEnergy(cfg, box), force |-> MaskForce(ScaledForces(cfg, box))]

\* C5: when a call returns although a sample k failed, the entries of every
\* other sample j that the engine can evaluate, before or after k, are those
\* of configuration j evaluated alone under the same box.
C5_FailureLeavesOthersIntact ==
  (pc = "returned" /\ via = "oracle" /\ \E k \in 1..Len(pos) : Fails(pos[k])) =>
     \A j \in 1..Len(pos) :
        ~Fails(pos[j]) =>
           /\ out.energies[j] = EvaluatedAlone(pos[j], callBox).energy
           /\ out.forces[j] = EvaluatedAlone(pos[j], callBox).force

C5_Witness ==
  /\ pc = "returned"
  /\ via = "oracle"
  /\ Len(pos) = 2
  /\ Fails(pos[1])
  /\ ~Fails(pos[2])
  /\ ctxPos = pos[2]
  /\ out.energies[1] = NaN

\* the result of evaluating one configuration in a bridge call of its own,
\* without batch dimension: the force in the (n_molecules, n_sites, 3) layout
AloneThroughBridge(cfg, box) ==
  [energy |-> EvaluatedAlone(cfg, box).energy,
   force |-> [m \in 1..n_molecules |-> [s \in 1..n_sites |->
                EvaluatedAlone(cfg, box).force[(m - 1) * n_sites + s]]]]

\* C6: a batch whose samples all succeed returns, in input order, the
\* energies and forces of every configuration evaluated in a call of its own
\* under the same box: through the oracle, and through the bridge, where the
\* call of its own is the one without batch dimension; whatever the context
\* held before the call.
C6_BatchEqualsSingles ==
  (pc = "returned" /\ \A k \in 1..Len(pos) : ~Fails(pos[k])) =>
     /\ via = "oracle" =>
          /\ out.energies = [j \in 1..Len(pos) |-> EvaluatedAlone(pos[j], callBox).energy]
          /\ out.forces = [j \in 1..Len(pos) |-> EvaluatedAlone(pos[j], callBox).force]
     /\ (via = "bridge" /\ has_batch_dim) =>
          /\ out.energies = [j \in 1..Len(pos) |-> AloneThroughBridge(pos[j], callBox).energy]
          /\ out.forces = [j \in 1..Len(pos) |-> AloneThroughBridge(pos[j], callBox).force]
     /\ (via = "bridge" /\ ~has_batch_dim) =>
          /\ out.energies = AloneThroughBridge(pos[1], callBox).energy
          /\ out.forces = AloneThroughBridge(pos[1], callBox).force

C6_Witness ==
  /\ pc = "returned"
  /\ via = "bridge"
  /\ has_batch_dim
  /\ Len(pos) = 2
  /\ pos[1] = 1
  /\ pos[2] = 0
  /\ boxArg # NoBox
  /\ out.energies[1] # out.energies[2]

\* the context holds the box that was supplied last
BoxIsLastSupplied ==
  /\ lastBox.kind = "model" => ctxBox = ModelBox
  /\ lastBox.kind = "set_box" =>
       \A r \in 1..SPATIAL_DIM, c \in 1..SPATIAL_DIM :
          ctxBox[r][c] = IF r = c THEN lastBox.box.max[r] - lastBox.box.min[r] ELSE 0
  /\ lastBox.kind = "call" => ctxBox = lastBox.box.data
  /\ InEngine => /\ boxSets = (IF boxArg # NoBox THEN 1 ELSE 0)
                 /\ boxArg # NoBox => ctxBox = boxArg.data
                 /\ callBox = ctxBox

\* C10: the box of the context is changed only by set_box and by a call with
\* a box argument, which sets it once, before the first sample; it never
\* changes between the samples of a batch; a call with box None leaves it as
\* it was; so the box in use is always the last box supplied, or the model's
\* box when none was.
C10_BoxIsPersistent ==
  /\ []BoxIsLastSupplied
  /\ [][pc = "loop" => ctxBox' = ctxBox]_vars
  /\ [][(pc = "idle" /\ pc' # "idle" /\ boxArg' = NoBox) => ctxBox' = ctxBox]_vars
  /\ [][ctxBox' # ctxBox => pc = "idle" /\ (pc' = "idle" \/ boxArg' # NoBox)]_vars

C10_Witness ==
  /\ pc = "returned"
  /\ boxArg = NoBox
  /\ Len(pos) = 2
  /\ lastBox.kind = "set_box"
  /\ ctxBox # ModelBox
  /\ ~Fails(pos[1])
  /\ out.energies[1] = EvaluatedAlone(pos[1], ctxBox).energy

\* the cutoff potential was evaluated
CutDone == cut.pc = "out"

\* the gradient gr is exactly the vector g_out * v
GradEquals(gr, g_out, v) ==
  \A k \in 1..Dim :
     /\ (gr.vec[k] * gr.num) * (gr.vec[k] * gr.num) = (g_out * v[k]) * (g_out * v[k]) * gr.denSq
     /\ (gr.vec[k] * gr.num) * (g_out * v[k]) >= 0

\* the numerator of the squared norm of gr, whose denominator is gr.denSq
NormSqNum(gr) == SumSq(gr.vec) * gr.num * gr.num

\* C7 as stated: wherever norm(grad P(x)) <= t, the boundary included, the
\* wrapped potential has the value P(x) and the gradient grad P(x).
C7_ExactUpToThreshold ==
  (CutDone /\ SumSq(Grad(cut.P, cut.inp)) <= cut.threshold * cut.threshold) =>
     /\ cut.out = Value(cut.P, cut.inp)
     /\ GradEquals(cut.grad, cut.g_out, Grad(cut.P, cut.inp))

\* C7 amended: wherever the regularised norm sqrt(1e-12 + norm(grad P(x))^2)
\* is at most t, the wrapped potential has the value P(x) and the gradient
\* grad P(x).
C7_ExactBelowRegularisedThreshold ==
  (CutDone /\ RegNormSq(Grad(cut.P, cut.inp)) <= cut.threshold * cut.threshold) =>
     /\ cut.out = Value(cut.P, cut.inp)
     /\ GradEquals(cut.grad, cut.g_out, Grad(cut.P, cut.inp))

C7_Witness ==
  /\ CutDone
  /\ RegNormSq(Grad(cut.P, cut.inp)) <= cut.threshold * cut.threshold
  /\ SumSq(Grad(cut.P, cut.inp)) > 0
  /\ cut.out # approximate_potential(cut.reference, cut.inp)
  /\ cut.grad.vec # GradApprox(cut.reference, cut.inp)

\* C8 as stated: wherever norm(grad P(x)) > t, the wrapped potential has the
\* value Q(x) and a gradient of norm exactly t, at x = x0 too.
C8_NormIsThreshold ==
  (CutDone /\ cut.g_out = 1 /\ SumSq(Grad(cut.P, cut.inp)) > cut.threshold * cut.threshold) =>
     /\ cut.out = approximate_potential(cut.reference, cut.inp)
     /\ NormSqNum(cut.grad) = cut.threshold * cut.threshold * cut.grad.denSq

\* C8 amended: wherever norm(grad P(x)) > t >= 0, the wrapped potential has
\* the value Q(x) and the gradient t * (x - x0) / sqrt(1e-12 + norm(x - x0)^2):
\* its norm is at most t, below t when t > 0, and zero at x = x0.
C8_NormBelowThreshold ==
  (CutDone /\ cut.g_out = 1 /\ SumSq(Grad(cut.P, cut.inp)) > cut.threshold * cut.threshold) =>
     LET d == [k \in 1..Dim |-> cut.inp[k] - cut.reference[k]]
         t == cut.threshold
     IN /\ cut.out = approximate_potential(cut.reference, cut.inp)
        /\ \A k \in 1..Dim :
              /\ (cut.grad.vec[k] * cut.grad.num) * (cut.grad.vec[k] * cut.grad.num) * (EPS + SumSq(d))
                   = (t * d[k]) * (t * d[k]) * cut.grad.denSq
              /\ (cut.grad.vec[k] * cut.grad.num) * d[k] >= 0
        /\ NormSqNum(cut.grad) <= t * t * cut.grad.denSq
        /\ t > 0 => NormSqNum(cut.grad) < t * t * cut.grad.denSq
        /\ cut.inp = cut.reference => NormSqNum(cut.grad) = 0

C8_Witness ==
  /\ CutDone
  /\ cut.g_out = 1
  /\ cut.threshold > 0
  /\ SumSq(Grad(cut.P, cut.inp)) > cut.threshold * cut.threshold
  /\ cut.inp = cut.reference
  /\ NormSqNum(cut.grad) = 0

\* C9: for a well-shaped input TargetDensity.potential returns
\* -aux_log_density(inp.aux) + E, E the bridge energy of inp.pos under the box
\* inp.box.size; it fails only when a cutoff is set and no data is attached,
\* with the precondition error and before the oracle is invoked.
C9_PotentialIsAuxPlusEnergy ==
  tgt.pc = "out" =>
     IF tgt.cutoff # <<>> /\ tgt.data = <<>>
     THEN tgt.result.exc = "ValueError" /\ tgt.result.oracle_calls = 0
     ELSE /\ tgt.result.exc = None
          /\ tgt.cutoff = <<>> =>
               tgt.result.value =
                 -aux_log_prob(tgt.inp.aux) + ScaledEnergy(tgt.inp.pos, Diag(tgt.inp.box.data)).v

====
